---- MODULE Spec2Model ----
(***************************************************************************)
(* The `remote` and `apply` argument-rewriting rules of hub.               *)
(*                                                                         *)
(* A command handler receives the positional parameters of an invocation   *)
(* (Args.Params), may rewrite them in place and may enqueue prerequisite   *)
(* commands (Args.beforeChain) that run before the main git command.       *)
(* Tokens are TLA+ strings; the regular expressions and the path functions *)
(* of the handlers are computed character by character.                    *)
(* Parameter indices are 1-based here; Go's "not found" index -1 is 0.     *)
(***************************************************************************)
EXTENDS Integers, Sequences, FiniteSets, TLC

VARIABLES
    cmd,          \* the subcommand that triggered dispatch: "remote" | "apply"
    params,       \* Args.Params
    beforeChain,  \* Args.beforeChain: the prerequisite commands, in enqueue order
    ctx,          \* the environment the handlers read (repository, config)
    pc,           \* "raw" | "rewritten" | "rerun" | "aborted"
    input,        \* history: the parameters of the original invocation
    prev,         \* history: the parameters before the latest handler run
    prevChain,    \* history: the prerequisite queue before the latest run
    proj          \* history: the Project the latest `remote` run built

vars == <<cmd, params, beforeChain, ctx, pc, input, prev, prevChain, proj>>

---------------------------------------------------------------------------
(* Bounds *)

MaxApplyParams == 3

MaxRemoteParams == 4

---------------------------------------------------------------------------
(* Strings *)

\* The substring s[i..j], empty when the range leaves the string.
Sub(s, i, j) == IF i < 1 \/ j > Len(s) \/ i > j THEN "" ELSE SubSeq(s, i, j)

Ch(s, i) == Sub(s, i, i)

HasPrefix(s, p) == Len(s) >= Len(p) /\ Sub(s, 1, Len(p)) = p

HasSuffix(s, p) == Len(s) >= Len(p) /\ Sub(s, Len(s) - Len(p) + 1, Len(s)) = p

SetMin(S) == CHOOSE x \in S : \A y \in S : x <= y

SetMax(S) == CHOOSE x \in S : \A y \in S : x >= y

\* Every position of the one-character string c in s.
Positions(s, c) == {i \in 1..Len(s) : Ch(s, i) = c}

Chars(s) == {Ch(s, i) : i \in 1..Len(s)}

Digit == Chars("0123456789")

UpperLetters == "ABCDEFGHIJKLMNOPQRSTUVWXYZ"

LowerLetters == "abcdefghijklmnopqrstuvwxyz"

AlphaNum == Chars(UpperLetters) \cup Chars(LowerLetters) \cup Digit

\* regexp \w
WordChar == AlphaNum \cup {"_"}

AllIn(s, lo, hi, S) == \A i \in lo..hi : Ch(s, i) \in S

ToLowerCh(c) ==
    IF c \in Chars(UpperLetters)
    THEN Ch(LowerLetters, SetMin(Positions(UpperLetters, c)))
    ELSE c

RECURSIVE ToLower(_)
ToLower(s) == IF s = "" THEN "" ELSE ToLowerCh(Head(s)) \o ToLower(Tail(s))

---------------------------------------------------------------------------
(* Args *)

IsParamsEmpty(ps) == Len(ps) = 0

FirstParam(ps) == ps[1]

LastParam(ps) == ps[Len(ps)]

ParamsSize(ps) == Len(ps)

IndexOfParam(ps, v) ==
    LET I == {i \in 1..Len(ps) : ps[i] = v}
    IN IF I = {} THEN 0 ELSE SetMin(I)

ReplaceParam(ps, idx, v) == [ps EXCEPT ![idx] = v]

RemoveParam(ps, idx) == SubSeq(ps, 1, idx - 1) \o SubSeq(ps, idx + 1, Len(ps))

AppendParams(ps, v) == Append(ps, v)

IsFlag(p) == HasPrefix(p, "-")

NotFlag(p) == ~IsFlag(p)

Words(ps) == SelectSeq(ps, NotFlag)

Before(chain, command) == Append(chain, command)

---------------------------------------------------------------------------
(* apply *)

Version == "2.2.0"

TempDir == "/tmp"

UrlPrefixes ==
    { "http://github.com/", "https://github.com/",
      "http://gist.github.com/", "https://gist.github.com/" }

\* urlRegexp.MatchString: ^https?://(gist\.)?github\.com/
UrlMatch(url) == \E p \in UrlPrefixes : HasPrefix(url, p)

\* urlRegexp.FindStringSubmatch(url)[1] == "gist."
IsGist(url) ==
    HasPrefix(url, "http://gist.github.com/") \/ HasPrefix(url, "https://gist.github.com/")

\* Mutation: the fragment is left in the URL.
StripFragment_Kept(url) == url

\* fragmentRegexp.ReplaceAllString(url, ""): "#.+" needs one character after
\* the '#', and then takes the rest of the text.
StripFragment(url) ==
    LET H == {i \in Positions(url, "#") : i < Len(url)}
    IN IF H = {} THEN url ELSE Sub(url, 1, SetMin(H) - 1)

\* The matches (p, j) of (/pull/\d+)/\w*$ in url: the group spans p..j-1 and
\* url[j] is the '/' that starts the trailing word.
PullMatches(url) ==
    {m \in {p \in 1..Len(url) : Sub(url, p, p + 5) = "/pull/"} \X Positions(url, "/") :
        /\ m[2] >= m[1] + 7
        /\ AllIn(url, m[1] + 6, m[2] - 1, Digit)
        /\ Ch(url, m[2]) = "/"
        /\ AllIn(url, m[2] + 1, Len(url), WordChar)}

\* pullRegexp.ReplaceAllString(url, pull) for the leftmost match.
CollapsePull(url) ==
    LET M == PullMatches(url)
    IN IF M = {} THEN url
       ELSE LET m == CHOOSE x \in M : \A y \in M : x[1] <= y[1]
                pull == Sub(url, m[1], m[2] - 1)
            IN Sub(url, 1, m[1] - 1) \o pull

ExtOf(gist) == IF gist THEN ".txt" ELSE ".patch"

PrefixOf(gist) == IF gist THEN "gist-" ELSE ""

\* filepath.Ext: the suffix from the last '.' of the last path element.
FilepathExt(path) ==
    LET S == Positions(path, "/")
        from == IF S = {} THEN 1 ELSE SetMax(S) + 1
        D == {i \in Positions(path, ".") : i >= from}
    IN IF D = {} THEN "" ELSE Sub(path, SetMax(D), Len(path))

RECURSIVE TrimTrailingSlashes(_)
TrimTrailingSlashes(path) ==
    IF Len(path) > 0 /\ Ch(path, Len(path)) = "/"
    THEN TrimTrailingSlashes(Sub(path, 1, Len(path) - 1))
    ELSE path

\* filepath.Base
FilepathBase(path) ==
    IF path = "" THEN "."
    ELSE LET t == TrimTrailingSlashes(path)
             S == Positions(t, "/")
             b == IF S = {} THEN t ELSE Sub(t, SetMax(S) + 1, Len(t))
         IN IF b = "" THEN "/" ELSE b

\* filepath.Join(dir, file) for a directory and one element: Clean drops an
\* empty or "." element and a trailing separator of dir.
FilepathJoin(dir, file) ==
    LET d == IF TrimTrailingSlashes(dir) = "" /\ dir # "" THEN "/" ELSE TrimTrailingSlashes(dir)
    IN IF file \in {"", "."} THEN d
       ELSE IF d = "" THEN file
       ELSE IF d = "/" THEN d \o file
       ELSE d \o "/" \o file

\* The URL the prerequisite fetches for a matched parameter.
FetchUrl(url) ==
    LET gist == IsGist(url)
        u1 == StripFragment(url)
        u2 == IF ~gist THEN CollapsePull(u1) ELSE u1
    IN IF FilepathExt(u2) # ExtOf(gist) THEN u2 \o ExtOf(gist) ELSE u2

\* filepath.Join(os.TempDir(), prefix+filepath.Base(url)), url being the URL to fetch
PatchFile(gist, url) == FilepathJoin(TempDir, PrefixOf(gist) \o FilepathBase(url))

CurlCommand(url, patchFile) ==
    <<"curl", "-#LA", "gh " \o Version, url, "-o", patchFile>>

\* Mutation: the scan keeps going and the last matching parameter wins.
FirstUrlIndex_Last(ps) ==
    LET I == {i \in 1..Len(ps) : UrlMatch(ps[i])}
    IN IF I = {} THEN 0 ELSE SetMax(I)

\* The first parameter, in range order, that urlRegexp matches (0: none).
FirstUrlIndex(ps) ==
    LET I == {i \in 1..Len(ps) : UrlMatch(ps[i])}
    IN IF I = {} THEN 0 ELSE SetMin(I)

transformApplyArgs(ps, chain) ==
    LET i == FirstUrlIndex(ps)
    IN IF i = 0 THEN [params |-> ps, chain |-> chain]
       ELSE LET idx == IndexOfParam(ps, ps[i])
                url == FetchUrl(ps[i])
                patchFile == PatchFile(IsGist(ps[i]), url)
            IN [params |-> [ps EXCEPT ![idx] = patchFile],
                chain  |-> Before(chain, CurlCommand(url, patchFile))]

apply(ps, chain) ==
    IF ~IsParamsEmpty(ps) THEN transformApplyArgs(ps, chain)
    ELSE [params |-> ps, chain |-> chain]

---------------------------------------------------------------------------
(* remote *)

GitHubHost == "github.com"

\* OwnerRe: [a-zA-Z0-9][a-zA-Z0-9-]*
IsOwner(s) ==
    /\ Len(s) >= 1
    /\ Ch(s, 1) \in AlphaNum
    /\ AllIn(s, 2, Len(s), AlphaNum \cup {"-"})

\* NameRe: [\w.][\w.-]*
IsName(s) ==
    /\ Len(s) >= 1
    /\ Ch(s, 1) \in WordChar \cup {"."}
    /\ AllIn(s, 2, Len(s), WordChar \cup {".", "-"})

\* Mutation: the owner/name pattern without its ^ and $ anchors, so that it
\* matches inside a longer token.
parseRepoNameOwner_Unanchored(nameWithOwner) ==
    IF IsOwner(nameWithOwner) THEN [owner |-> nameWithOwner, name |-> ""]
    ELSE LET S == {m \in (1..Len(nameWithOwner)) \X Positions(nameWithOwner, "/") :
                      /\ m[1] < m[2]
                      /\ IsOwner(Sub(nameWithOwner, m[1], m[2] - 1))
                      /\ Ch(nameWithOwner, m[2] + 1) \in WordChar \cup {"."}}
         IN IF S = {} THEN [owner |-> "", name |-> ""]
            ELSE LET m == CHOOSE x \in S : \A y \in S : x[1] <= y[1]
                     E == {e \in (m[2] + 1)..Len(nameWithOwner) :
                              IsName(Sub(nameWithOwner, m[2] + 1, e))}
                 IN [owner |-> Sub(nameWithOwner, m[1], m[2] - 1),
                     name  |-> Sub(nameWithOwner, m[2] + 1, SetMax(E))]

parseRepoNameOwner(nameWithOwner) ==
    IF IsOwner(nameWithOwner) THEN [owner |-> nameWithOwner, name |-> ""]
    ELSE LET S == {i \in Positions(nameWithOwner, "/") :
                      /\ IsOwner(Sub(nameWithOwner, 1, i - 1))
                      /\ IsName(Sub(nameWithOwner, i + 1, Len(nameWithOwner)))}
         IN IF S = {} THEN [owner |-> "", name |-> ""]
            ELSE LET i == SetMin(S)
                 IN [owner |-> Sub(nameWithOwner, 1, i - 1),
                     name  |-> Sub(nameWithOwner, i + 1, Len(nameWithOwner))]

\* Mutation: the flag is detected and left in the list.
parseRemotePrivateFlag_Kept(ps) ==
    [private |-> IndexOfParam(ps, "-p") # 0, params |-> ps]

parseRemotePrivateFlag(ps) ==
    LET i == IndexOfParam(ps, "-p")
    IN IF i # 0 THEN [private |-> TRUE, params |-> RemoveParam(ps, i)]
       ELSE [private |-> FALSE, params |-> ps]

\* github.NewProject(owner, name, host): an empty host is the default host.
NewProject(owner, name, host, c) ==
    [owner |-> owner, name |-> name,
     host |-> IF host = "" THEN c.defaultHost ELSE host]

\* Project.GitURL(name, owner, isSSH)
GitURL(project, name, owner, isSSH) ==
    IF isSSH THEN "git@" \o project.host \o ":" \o owner \o "/" \o name \o ".git"
    ELSE "git://" \o project.host \o "/" \o owner \o "/" \o name \o ".git"

\* Mutation: no fallback to the working directory's name.
ResolveName_NoFallback(name, c) ==
    IF name = ""
    THEN [name |-> c.projectName, repoName |-> c.projectName,
          host |-> c.projectHost, failed |-> ~c.projectOk]
    ELSE [name |-> name, repoName |-> "", host |-> "", failed |-> FALSE]

\* Lines 66-77: the repository name and host when the identifier gave none.
\* MainProject's name and host, else git.RootDirName() and no host.
ResolveName(name, c) ==
    IF name = ""
    THEN IF c.projectOk
         THEN [name |-> c.projectName, repoName |-> c.projectName,
               host |-> c.projectHost, failed |-> FALSE]
         ELSE [name |-> c.rootDirName, repoName |-> c.rootDirName,
               host |-> "", failed |-> ~c.rootDirOk]
    ELSE [name |-> name, repoName |-> "", host |-> "", failed |-> FALSE]

\* Mutation: the number of words is not checked.
IsOriginCase_AnyLength(words) == Len(words) >= 2 /\ words[2] = "origin"

IsOriginCase(words) == Len(words) = 2 /\ words[2] = "origin"

\* Lines 86-97: the owner, the name and the parameters after the three-way
\* branch on the non-flag words (ps is the list parseRemotePrivateFlag left).
RewriteWords(ps, words, owner, name, repoName, user) ==
    IF IsOriginCase(words)
    THEN [owner |-> user, name |-> repoName, params |-> ps]
    ELSE IF Len(words) = 2
    THEN LET idx == IndexOfParam(ps, words[2])
         IN [owner |-> owner, name |-> name,
             params |-> IF idx # 0 THEN ReplaceParam(ps, idx, owner) ELSE ps]
    ELSE [owner |-> owner, name |-> name,
          params |-> RemoveParam(ps, ParamsSize(ps))]

\* Mutation: the logins are compared as typed.
IsOwnUser_CaseSensitive(owner, user) == owner = user

\* Lines 99-102
IsOwnUser(owner, user) == ToLower(owner) = ToLower(user)

\* Line 106
IsPrivate(flag, own, project) == flag \/ own \/ project.host # GitHubHost

\* Lines 62-82: utils.Check exits the process on an error of LocalRepo, of
\* RootDirName or of the default host's configuration.
Aborts(name, c) ==
    \/ ~c.localRepoOk
    \/ ResolveName(name, c).failed
    \/ ~c.configOk

NoProject == [owner |-> "", name |-> "", host |-> ""]

Unchanged(ps) == [params |-> ps, aborted |-> FALSE, rewrote |-> FALSE, project |-> NoProject]

transformRemoteArgs(ps, c) ==
    LET parsed == parseRepoNameOwner(LastParam(ps))
    IN IF parsed.owner = "" THEN Unchanged(ps)
       ELSE IF Aborts(parsed.name, c)
       THEN [params |-> ps, aborted |-> TRUE, rewrote |-> FALSE, project |-> NoProject]
       ELSE LET r == ResolveName(parsed.name, c)
                words == Words(ps)
                flag == parseRemotePrivateFlag(ps)
                w == RewriteWords(flag.params, words, parsed.owner, r.name,
                                  r.repoName, c.user)
                own == IsOwnUser(w.owner, c.user)
                owner == IF own THEN c.user ELSE w.owner
                project == NewProject(owner, w.name, r.host, c)
                isPrivate == IsPrivate(flag.private, own, project)
                url == GitURL(project, w.name, owner, isPrivate)
            IN [params |-> AppendParams(w.params, url), aborted |-> FALSE,
                rewrote |-> TRUE, project |-> project]

\* Mutation: the sub-key is not checked.
RemoteApplies_AnySubKey(ps) == ~IsParamsEmpty(ps)

RemoteApplies(ps) ==
    ~IsParamsEmpty(ps) /\ (FirstParam(ps) = "add" \/ FirstParam(ps) = "set-url")

remote(ps, c) ==
    IF RemoteApplies(ps) THEN transformRemoteArgs(ps, c) ELSE Unchanged(ps)

---------------------------------------------------------------------------
(* Invocations *)

RECURSIVE SeqsUpTo(_, _)
SeqsUpTo(S, n) ==
    IF n = 0 THEN {<<>>}
    ELSE LET R == SeqsUpTo(S, n - 1)
         IN R \cup {Append(r, x) : r \in {q \in R : Len(q) = n - 1}, x \in S}

\* The first parameter of a `remote` invocation.
RemoteSubKeys == {"add", "set-url", "rm"}

\* The further parameters of a `remote` invocation.
RemoteTokens ==
    {"origin", "jingweno", "jingweno/gh", "OctoCat", "-p", "-t"}

RemoteInputs ==
    {<<>>} \cup {<<k>> \o r : k \in RemoteSubKeys, r \in SeqsUpTo(RemoteTokens, MaxRemoteParams - 1)}

ApplyTokens ==
    { "https://github.com/jingweno/gh/pull/55",
      "https://github.com/jingweno/gh/pull/55/files#diff-0",
      "https://github.com/jingweno/gh/pull/55/#top",
      "http://github.com/jingweno/gh/commit/fdb9921.patch",
      "https://github.com/jingweno/gh/commit/fdb9921#",
      "https://gist.github.com/8da7fb575debd88c54cf",
      "https://gist.github.com/jingweno/pull/7/raw#file-a",
      "http://gist.github.com/8da7fb.txt",
      "https://example.com/jingweno/gh/pull/55",
      "--ignore-whitespace",
      "fix.patch" }

ApplyInputs == SeqsUpTo(ApplyTokens, MaxApplyParams)

\* What the handlers read from the repository and the configuration.
Context(repo, project, host, root, config, default) ==
    [user |-> "octocat", localRepoOk |-> repo,
     projectOk |-> project, projectName |-> "hub", projectHost |-> host,
     rootDirOk |-> root, rootDirName |-> "workdir",
     configOk |-> config, defaultHost |-> default]

Contexts ==
    { Context(TRUE,  TRUE,  "github.com",      TRUE,  TRUE,  "github.com"),
      Context(TRUE,  TRUE,  "ghe.example.com", TRUE,  TRUE,  "github.com"),
      Context(TRUE,  TRUE,  "github.com",      TRUE,  TRUE,  "ghe.example.com"),
      Context(TRUE,  FALSE, "",                TRUE,  TRUE,  "github.com"),
      Context(TRUE,  FALSE, "",                FALSE, TRUE,  "github.com"),
      Context(TRUE,  TRUE,  "github.com",      TRUE,  FALSE, "github.com"),
      Context(TRUE,  FALSE, "",                TRUE,  FALSE, "github.com"),
      Context(FALSE, FALSE, "",                TRUE,  TRUE,  "github.com") }

Init ==
    /\ cmd \in {"remote", "apply"}
    /\ params \in IF cmd = "remote" THEN RemoteInputs ELSE ApplyInputs
    /\ ctx \in IF cmd = "remote" THEN Contexts
               ELSE {Context(TRUE, TRUE, "github.com", TRUE, TRUE, "github.com")}
    /\ beforeChain = <<>>
    /\ pc = "raw"
    /\ input = params
    /\ prev = params
    /\ prevChain = <<>>
    /\ proj = NoProject

\* One dispatch of the `remote` handler on the current parameters.
RunRemote ==
    /\ cmd = "remote"
    /\ pc \in {"raw", "rewritten"}
    /\ LET r == remote(params, ctx)
       IN /\ params' = r.params
          /\ proj' = r.project
          /\ pc' = IF r.aborted THEN "aborted"
                   ELSE IF pc = "raw" THEN "rewritten" ELSE "rerun"
    /\ prev' = params
    /\ prevChain' = beforeChain
    /\ UNCHANGED <<cmd, beforeChain, ctx, input>>

\* One dispatch of the `apply` handler on the current parameters.
RunApply ==
    /\ cmd = "apply"
    /\ pc \in {"raw", "rewritten"}
    /\ LET r == apply(params, beforeChain)
       IN /\ params' = r.params
          /\ beforeChain' = r.chain
    /\ pc' = IF pc = "raw" THEN "rewritten" ELSE "rerun"
    /\ prev' = params
    /\ prevChain' = beforeChain
    /\ UNCHANGED <<cmd, ctx, input, proj>>

Next == RunRemote \/ RunApply

Spec == Init /\ [][Next]_vars

---------------------------------------------------------------------------
(* Vocabulary of the properties *)

Range(ps) == {ps[i] : i \in 1..Len(ps)}

Last(ps) == ps[Len(ps)]

Count(ps, v) == Cardinality({i \in 1..Len(ps) : ps[i] = v})

\* ps without the first occurrence of v.
WithoutFirst(ps, v) ==
    IF v \notin Range(ps) THEN ps
    ELSE LET i == SetMin({k \in 1..Len(ps) : ps[k] = v})
         IN SubSeq(ps, 1, i - 1) \o SubSeq(ps, i + 1, Len(ps))

\* The latest handler run returned (it did not exit the process).
Completed == pc \in {"rewritten", "rerun"}

\* OWNER or OWNER/NAME
IsIdentifier(s) ==
    \/ IsOwner(s)
    \/ \E i \in 1..Len(s) :
          Ch(s, i) = "/" /\ IsOwner(Sub(s, 1, i - 1)) /\ IsName(Sub(s, i + 1, Len(s)))

TypedOwner(s) ==
    IF Positions(s, "/") = {} THEN s ELSE Sub(s, 1, SetMin(Positions(s, "/")) - 1)

TypedName(s) ==
    IF Positions(s, "/") = {} THEN "" ELSE Sub(s, SetMin(Positions(s, "/")) + 1, Len(s))

\* The remote rule applies to ps: sub-key add or set-url, trailing identifier.
RemoteMatch(ps) ==
    /\ ps # <<>>
    /\ ps[1] \in {"add", "set-url"}
    /\ IsIdentifier(Last(ps))

IsWebUrl(s) ==
    \E scheme \in {"http", "https"}, sub \in {"", "gist."} :
        HasPrefix(s, scheme \o "://" \o sub \o "github.com/")

WebUrlIndices(ps) == {i \in 1..Len(ps) : IsWebUrl(ps[i])}

PublicUrl(p) == "git://" \o p.host \o "/" \o p.owner \o "/" \o p.name \o ".git"

PrivateUrl(p) == "git@" \o p.host \o ":" \o p.owner \o "/" \o p.name \o ".git"

\* The repository name the context resolves: the local project's name, else
\* the base name of the working directory.
ResolvedName == IF ctx.projectOk THEN ctx.projectName ELSE ctx.rootDirName

SameLogin(a, b) == ToLower(a) = ToLower(b)

---------------------------------------------------------------------------
(* C1 *)

NoMatchCase ==
    \/ /\ cmd = "remote"
       /\ \/ prev = <<>>
          \/ prev[1] \notin {"add", "set-url"}
          \/ ~IsIdentifier(Last(prev))
    \/ /\ cmd = "apply"
       /\ WebUrlIndices(prev) = {}

\* C1: whenever a rule does not apply (remote: no parameters, a first
\* parameter other than add/set-url, or a trailing parameter that is neither
\* OWNER nor OWNER/NAME; apply: no parameters or no github.com / gist.github.com
\* URL among them), the handler returns, the parameter list is the input list
\* and no prerequisite is enqueued.
C1_NoMatchPassthrough ==
    (pc # "raw" /\ NoMatchCase) =>
        /\ pc # "aborted"
        /\ params = prev
        /\ beforeChain = prevChain

C1_Witness ==
    /\ cmd = "remote"
    /\ pc = "rewritten"
    /\ prev = <<"add", "-p", "origin", "-t">>
    /\ params = prev

---------------------------------------------------------------------------
(* C2 *)

\* C2: an apply invocation with one or more matching web URLs enqueues
\* exactly one prerequisite, replaces exactly the first matching parameter, at
\* its position, by the temp-file path, and keeps every other parameter (later
\* matching URLs included) and the parameter count.
C2_FirstUrlOnly ==
    (cmd = "apply" /\ pc # "raw" /\ WebUrlIndices(prev) # {}) =>
        LET i == SetMin(WebUrlIndices(prev))
        IN /\ Len(beforeChain) = Len(prevChain) + 1
           /\ SubSeq(beforeChain, 1, Len(prevChain)) = prevChain
           /\ Len(params) = Len(prev)
           /\ params[i] # prev[i]
           /\ HasPrefix(params[i], TempDir \o "/")
           /\ params[i] = Last(Last(beforeChain))
           /\ \A j \in 1..Len(prev) : j # i => params[j] = prev[j]

C2_Witness ==
    /\ cmd = "apply"
    /\ pc = "rewritten"
    /\ prev = <<"fix.patch", "https://github.com/jingweno/gh/pull/55",
                "https://github.com/jingweno/gh/pull/55">>
    /\ params = <<"fix.patch", "/tmp/55.patch", "https://github.com/jingweno/gh/pull/55">>
    /\ Len(beforeChain) = 1

---------------------------------------------------------------------------
(* C3 *)

NoFragment(u) ==
    LET H == {i \in 1..(Len(u) - 1) : Ch(u, i) = "#"}
    IN IF H = {} THEN u ELSE Sub(u, 1, SetMin(H) - 1)

\* The ends k of a trailing /pull/<N> that a /<word> follows to the end of u.
PullEnds(u) ==
    {k \in 1..(Len(u) - 1) :
        /\ Ch(u, k + 1) = "/"
        /\ AllIn(u, k + 2, Len(u), WordChar)
        /\ \E d \in 1..k : AllIn(u, d, k, Digit) /\ Sub(u, d - 6, d - 1) = "/pull/"}

NoPullSuffix(u) ==
    IF PullEnds(u) = {} THEN u ELSE Sub(u, 1, SetMax(PullEnds(u)))

OnGist(u) == HasPrefix(u, "http://gist.") \/ HasPrefix(u, "https://gist.")

WithExtension(u, ext) == IF HasSuffix(u, ext) THEN u ELSE u \o ext

ExpectedFetch(u) ==
    IF OnGist(u) THEN WithExtension(NoFragment(u), ".txt")
    ELSE WithExtension(NoPullSuffix(NoFragment(u)), ".patch")

LastSegment(u) ==
    IF Positions(u, "/") = {} THEN u ELSE Sub(u, SetMax(Positions(u, "/")) + 1, Len(u))

ExpectedPath(u) ==
    "/tmp/" \o (IF OnGist(u) THEN "gist-" ELSE "") \o LastSegment(ExpectedFetch(u))

\* C3: for the matched URL the prerequisite fetches the input with its
\* #fragment removed, then (not for a gist) a trailing /pull/<N>/<word>
\* collapsed to /pull/<N>, then .txt (gist) or .patch appended unless present;
\* it stores it at the temp directory joined with "gist-" (gist only) and the
\* final path segment of the fetched URL; that path follows -o and is the one
\* substituted into the main command.
C3_UrlNormalisation ==
    (cmd = "apply" /\ pc # "raw" /\ WebUrlIndices(prev) # {}) =>
        LET i == SetMin(WebUrlIndices(prev))
            c == Last(beforeChain)
        IN /\ Len(c) = 6
           /\ c[1] = "curl"
           /\ c[4] = ExpectedFetch(prev[i])
           /\ c[5] = "-o"
           /\ c[6] = ExpectedPath(prev[i])
           /\ params[i] = c[6]

C3_Witness ==
    /\ cmd = "apply"
    /\ pc = "rewritten"
    /\ prev = <<"--ignore-whitespace", "https://github.com/jingweno/gh/pull/55/files#diff-0">>
    /\ params = <<"--ignore-whitespace", "/tmp/55.patch">>
    /\ beforeChain = << <<"curl", "-#LA", "gh " \o Version,
                          "https://github.com/jingweno/gh/pull/55.patch",
                          "-o", "/tmp/55.patch">> >>

---------------------------------------------------------------------------
(* C4 *)

\* C4, as claimed: a second dispatch on the list a first rewrite produced
\* changes no parameter and enqueues no prerequisite, for both rules.
C4_SecondRunNoOp ==
    (pc = "rerun" /\ prev # input) =>
        (params = prev /\ beforeChain = prevChain)

\* C4, amended: a second dispatch on the list a first rewrite produced is a
\* no-op for remote, and for apply when no matching web URL is left in that
\* list (the invocation held exactly one).
C4_Idempotent ==
    (pc = "rerun" /\ prev # input /\ (cmd = "apply" => WebUrlIndices(prev) = {})) =>
        (params = prev /\ beforeChain = prevChain)

C4_Witness ==
    /\ pc = "rerun"
    /\ cmd = "apply"
    /\ input = <<"--ignore-whitespace", "https://github.com/jingweno/gh/pull/55">>
    /\ prev = <<"--ignore-whitespace", "/tmp/55.patch">>
    /\ params = prev
    /\ Len(beforeChain) = 1

---------------------------------------------------------------------------
(* C5 *)

\* C5: the URL the remote rule appends is the project's URL, in the private
\* scheme if and only if -p was among the parameters, or the owner equals the
\* authenticated user compared case-insensitively, or the project's host is
\* not github.com.
C5_Visibility ==
    (cmd = "remote" /\ Completed /\ RemoteMatch(prev)) =>
        LET private == \/ "-p" \in Range(prev)
                       \/ SameLogin(proj.owner, ctx.user)
                       \/ proj.host # "github.com"
        IN Last(params) = IF private THEN PrivateUrl(proj) ELSE PublicUrl(proj)

C5_Witness ==
    /\ cmd = "remote"
    /\ pc = "rewritten"
    /\ prev = <<"add", "OctoCat">>
    /\ ctx.projectOk /\ ctx.projectHost = "github.com"
    /\ params = <<"add", "OctoCat", "git@github.com:octocat/hub.git">>

---------------------------------------------------------------------------
(* C6 *)

OriginCase(ps) == Len(Words(ps)) = 2 /\ Words(ps)[2] = "origin"

OriginThenIdentifier(ps) ==
    /\ Len(Words(ps)) >= 3
    /\ \E i \in 2..(Len(Words(ps)) - 1) : Words(ps)[i] = "origin"

\* C6: when the non-flag tokens are exactly two and the second is origin, the
\* appended URL names the authenticated user and the resolved repository name
\* and origin stays in the list; when origin is followed by a further OWNER or
\* OWNER/NAME token, that token gives the owner (in the authenticated user's
\* spelling when it is the same login) and the name.
C6_OriginCase ==
    (cmd = "remote" /\ Completed /\ RemoteMatch(prev)) =>
        /\ OriginCase(prev) =>
              /\ proj.owner = ctx.user
              /\ proj.name = ResolvedName
              /\ Last(params) \in {PublicUrl(proj), PrivateUrl(proj)}
              /\ SubSeq(params, 1, Len(params) - 1) = WithoutFirst(prev, "-p")
              /\ "origin" \in Range(params)
        /\ OriginThenIdentifier(prev) =>
              LET owner == TypedOwner(Last(prev))
                  name == TypedName(Last(prev))
              IN /\ SameLogin(proj.owner, owner)
                 /\ ~SameLogin(owner, ctx.user) => proj.owner = owner
                 /\ proj.name = IF name # "" THEN name ELSE ResolvedName
                 /\ Last(params) \in {PublicUrl(proj), PrivateUrl(proj)}

C6_Witness ==
    /\ cmd = "remote"
    /\ pc = "rewritten"
    /\ prev = <<"set-url", "-p", "origin">>
    /\ ~ctx.projectOk
    /\ params = <<"set-url", "origin", "git@github.com:octocat/workdir.git">>

---------------------------------------------------------------------------
(* C7 *)

\* C7: as the help text states, `remote add origin` (no -p, github.com) is
\* rewritten to `remote add origin git://github.com/USER/REPO.git`.
C7_HelpTextOrigin ==
    (/\ cmd = "remote"
     /\ pc = "rewritten"
     /\ prev = <<"add", "origin">>
     /\ ctx.projectOk /\ ctx.projectHost = "github.com") =>
        params = <<"add", "origin",
                   "git://github.com/" \o ctx.user \o "/" \o ctx.projectName \o ".git">>

---------------------------------------------------------------------------
(* C8 *)

\* C8, as claimed: after a remote add|set-url invocation that contains -p,
\* the parameter list handed to git contains no -p.
C8_NoPrivateFlagLeft ==
    (/\ cmd = "remote"
     /\ Completed
     /\ prev # <<>>
     /\ prev[1] \in {"add", "set-url"}
     /\ "-p" \in Range(prev)) =>
        "-p" \notin Range(params)

\* C8, amended: when the remote rule applies (trailing OWNER or OWNER/NAME)
\* and completes, it removes the first -p and no other: the list handed to
\* git holds one -p less, so none when the invocation held exactly one.
C8_FirstPrivateFlagConsumed ==
    (cmd = "remote" /\ Completed /\ RemoteMatch(prev) /\ "-p" \in Range(prev)) =>
        /\ Count(params, "-p") = Count(prev, "-p") - 1
        /\ Count(prev, "-p") = 1 => "-p" \notin Range(params)

C8_Witness ==
    /\ cmd = "remote"
    /\ pc = "rewritten"
    /\ prev = <<"add", "-p", "-p", "jingweno">>
    /\ Count(params, "-p") = 1

---------------------------------------------------------------------------
(* C9 *)

\* C9, as claimed: when the rule applies (to a sub-key and at least an
\* identifier) and the working directory's name can be read, a local
\* repository or project that cannot be resolved does not make it abort: only
\* a default-host configuration failure does.
C9_OnlyConfigAborts ==
    (/\ cmd = "remote"
     /\ pc # "raw"
     /\ RemoteMatch(prev)
     /\ Len(prev) >= 2
     /\ ctx.rootDirOk
     /\ ctx.configOk) =>
        pc # "aborted"

NameNeeded == TypedName(Last(prev)) = ""

\* C9, amended: a current project that cannot be resolved is recoverable:
\* the rule takes the working-directory base name and completes the rewrite.
\* The rule aborts exactly when the local repository cannot be resolved, when
\* the working-directory name it falls back to cannot be read, or when the
\* default-host configuration fails, and then neither the parameter list nor
\* the prerequisite queue has changed.
C9_Recovery ==
    /\ pc = "aborted" => (cmd = "remote" /\ RemoteMatch(prev))
    /\ (cmd = "remote" /\ pc # "raw" /\ RemoteMatch(prev)) =>
          /\ pc = "aborted" <=>
                \/ ~ctx.localRepoOk
                \/ ~ctx.configOk
                \/ NameNeeded /\ ~ctx.projectOk /\ ~ctx.rootDirOk
          /\ pc = "aborted" => (params = prev /\ beforeChain = prevChain)
          /\ (pc # "aborted" /\ NameNeeded /\ ~ctx.projectOk) =>
                /\ proj.name = ctx.rootDirName
                /\ Last(params) \in {PublicUrl(proj), PrivateUrl(proj)}

C9_Witness ==
    /\ cmd = "remote"
    /\ pc = "rewritten"
    /\ ctx.localRepoOk /\ ~ctx.projectOk /\ ctx.rootDirOk /\ ctx.configOk
    /\ prev = <<"add", "jingweno">>
    /\ params = <<"add", "jingweno", "git://github.com/jingweno/workdir.git">>

---------------------------------------------------------------------------
(* C10 *)

\* C10: whenever the remote rule rewrites, the first parameter is still the
\* sub-key, the last parameter is the synthesized URL, and the remote name
\* (the word before the identifier, or the owner when the identifier is the
\* only word after the sub-key) is still in the list.
C10_SubKeyKept ==
    (cmd = "remote" /\ Completed /\ RemoteMatch(prev)) =>
        /\ params[1] = prev[1]
        /\ Len(params) >= 2
        /\ Last(params) \in {PublicUrl(proj), PrivateUrl(proj)}
        /\ LET w == Words(prev)
           IN /\ Len(w) >= 3 => w[Len(w) - 1] \in Range(params)
              /\ (Len(w) = 2 /\ w[2] # "origin") => TypedOwner(w[2]) \in Range(params)
              /\ OriginCase(prev) => "origin" \in Range(params)

====
